---- MODULE Spec2Model ----
(***************************************************************************)
(* Model of the rfc document cache (src/src/cache/storage.rs) and of the   *)
(* document fetcher (src/src/api/rfc_editor.rs).                           *)
(*                                                                         *)
(* Rust strings are modelled as sequences of one-character strings, so    *)
(* that rfind, file_stem and the digit test look at the characters they    *)
(* look at in the code.  Str turns such a sequence into a TLA+ string for  *)
(* comparison with literal URLs.                                           *)
(***************************************************************************)
EXTENDS Integers, Sequences, FiniteSets, TLC

(* ------------------------------ bounds -------------------------------- *)

\* longest draft name drawn for the suffix test
MaxNameLen == 4

(* ------------------------------ strings ------------------------------- *)

Digits == <<"0", "1", "2", "3", "4", "5", "6", "7", "8", "9">>

RECURSIVE Str(_)
Str(s) == IF s = <<>> THEN "" ELSE Head(s) \o Str(Tail(s))

\* char::is_ascii_digit
is_ascii_digit(c) == \E i \in 1..10 : Digits[i] = c

\* u32 Display as used by format!("{}", num)
RECURSIVE Decimal(_)
Decimal(n) ==
    IF n < 10 THEN <<Digits[n + 1]>>
    ELSE Decimal(n \div 10) \o <<Digits[(n % 10) + 1]>>

\* str::rfind(ch): index of the last occurrence, 0 when there is none
rfind(s, ch) ==
    IF \E i \in 1..Len(s) : s[i] = ch
    THEN CHOOSE i \in 1..Len(s) : s[i] = ch /\ \A j \in (i + 1)..Len(s) : s[j] # ch
    ELSE 0

IsPrefix(p, s) == Len(p) <= Len(s) /\ SubSeq(s, 1, Len(p)) = p

(* ------------------------- identity model ----------------------------- *)

Rfc(n) == [tag |-> "Rfc", num |-> n]
Draft(nm) == [tag |-> "Draft", name |-> nm]

FormatText == "Text"
FormatHtml == "Html"
Formats == {FormatText, FormatHtml}

None == [some |-> FALSE]
Some(v) == [some |-> TRUE, val |-> v]

\* DocumentType::name: rfc<number> for Rfc, the draft name for Draft
name(doc) ==
    IF doc.tag = "Rfc" THEN <<"r", "f", "c">> \o Decimal(doc.num) ELSE doc.name

\* Format::extension
extension(format) ==
    IF format = FormatText THEN <<"t", "x", "t">> ELSE <<"h", "t", "m", "l">>

\* value of a run of ASCII digits
RECURSIVE DigitsValue(_)
DigitsValue(s) ==
    IF s = <<>> THEN 0
    ELSE 10 * DigitsValue(SubSeq(s, 1, Len(s) - 1))
         + ((CHOOSE i \in 1..10 : Digits[i] = s[Len(s)]) - 1)

AllDigits(s) == s # <<>> /\ \A i \in 1..Len(s) : is_ascii_digit(s[i])

\* DocumentType::parse, the inverse of the canonical name: rfc<digits> is a
\* published document, any other non-empty name is a draft name
parse(stem) ==
    IF IsPrefix(<<"r", "f", "c">>, stem) /\ AllDigits(SubSeq(stem, 4, Len(stem)))
    THEN Some(Rfc(DigitsValue(SubSeq(stem, 4, Len(stem)))))
    ELSE IF stem = <<>> THEN None
    ELSE Some(Draft(stem))

(* -------------------- rfc_editor.rs: pure functions -------------------- *)

\* a faulty has_version_suffix: looks at the first dash instead of the last
has_version_suffix_first_dash(nm) ==
    IF \E i \in 1..Len(nm) : nm[i] = "-"
    THEN LET first_dash == CHOOSE i \in 1..Len(nm) :
                               nm[i] = "-" /\ \A j \in 1..(i - 1) : nm[j] # "-"
             suffix == SubSeq(nm, first_dash + 1, Len(nm))
         IN  suffix # <<>> /\ \A i \in 1..Len(suffix) : is_ascii_digit(suffix[i])
    ELSE FALSE

has_version_suffix(nm) ==
    LET last_dash == rfind(nm, "-") IN
    IF last_dash # 0
    THEN LET suffix == SubSeq(nm, last_dash + 1, Len(nm))
         IN  suffix # <<>> /\ \A i \in 1..Len(suffix) : is_ascii_digit(suffix[i])
    ELSE FALSE

\* a faulty html_url: appends .html to the draft page as well
html_url_draft_ext(doc) ==
    IF doc.tag = "Rfc"
    THEN "https://www.rfc-editor.org/rfc/rfc" \o Str(Decimal(doc.num)) \o ".html"
    ELSE "https://datatracker.ietf.org/doc/html/" \o Str(doc.name) \o ".html"

html_url(doc) ==
    IF doc.tag = "Rfc"
    THEN "https://www.rfc-editor.org/rfc/rfc" \o Str(Decimal(doc.num)) \o ".html"
    ELSE "https://datatracker.ietf.org/doc/html/" \o Str(doc.name)

text_url(doc) ==
    IF doc.tag = "Rfc"
    THEN "https://www.rfc-editor.org/rfc/rfc" \o Str(Decimal(doc.num)) \o ".txt"
    ELSE "https://www.ietf.org/archive/id/" \o Str(doc.name) \o ".txt"

\* the metadata URL of resolve_draft_version
doc_json_url(nm) == "https://datatracker.ietf.org/doc/" \o Str(nm) \o "/doc.json"

(* ----------------------------- input sets ----------------------------- *)

Alphabet == {"-", "0", "7", "a"}

\* every string over Alphabet of length at most MaxNameLen
Names == UNION {[1..n -> Alphabet] : n \in 0..MaxNameLen}

DraftA == <<"d", "r", "a", "f", "t", "-", "a">>
DraftFoo == <<"d", "r", "a", "f", "t", "-", "f", "o", "o">>
DraftFoo00 == DraftFoo \o <<"-", "0", "0">>
DraftQuic34 == <<"d", "r", "a", "f", "t", "-", "i", "e", "t", "f", "-",
                 "q", "u", "i", "c", "-", "t", "r", "a", "n", "s", "p", "o", "r", "t",
                 "-", "3", "4">>
NameRfc7 == <<"r", "f", "c", "7">>

\* the names of test_has_version_suffix
TestNames ==
    {DraftQuic34, DraftFoo00, DraftFoo, DraftFoo \o <<"-">>,
     DraftFoo \o <<"-", "v", "2">>, <<"d", "r", "a", "f", "t", "n", "a", "m", "e">>}

\* identities stored in the cache model; Draft(NameRfc7) has the canonical
\* name of Rfc(7)
CacheDocs == {Rfc(7), Draft(NameRfc7), Draft(DraftA)}
Contents == {"a", "b"}
Keys == CacheDocs \X Formats
\* the keys whose store history is recorded
HistKeys == {Rfc(7)} \X Formats

(* ------------------------------- state -------------------------------- *)

VARIABLES
    rootExists,   \* cache_dir exists on disk
    docsExists,   \* cache_dir/documents exists on disk
    files,        \* file name in cache_dir/documents -> file state
    last,         \* the last cache operation and what it returned
    lastStored,   \* history: key -> its latest store since a remove or clear
    pc,           \* where the running fetch is: idle, meta, text, html, done
    fdoc,         \* the identity fetch was called with
    rdoc,         \* the identity after resolve_draft_version
    reqs,         \* the requests this fetch has sent, in order
    resps,        \* the responses it has received, in order
    fres,         \* what fetch returned
    urlOut,       \* the last URL built by text_url or html_url
    sfxIn,        \* input of has_version_suffix
    sfxOut,       \* its result
    tasks,        \* concurrent caller -> where it is and what it holds
    finished      \* the callers whose store returned Ok, in that order

cacheVars == <<rootExists, docsExists, files, last, lastStored>>
fetchVars == <<pc, fdoc, rdoc, reqs, resps, fres, urlOut>>
pureVars == <<sfxIn, sfxOut>>
taskVars == <<tasks, finished>>
vars == <<rootExists, docsExists, files, last, lastStored,
          pc, fdoc, rdoc, reqs, resps, fres, urlOut, sfxIn, sfxOut,
          tasks, finished>>

(* --------------------------- storage.rs ------------------------------- *)

NoFile == [exists |-> FALSE]
\* a file holding valid UTF-8
Data(c) == [exists |-> TRUE, utf8 |-> TRUE, data |-> c]
\* a file cut inside a character by a failed write
Garbled == [exists |-> TRUE, utf8 |-> FALSE]

\* CacheManager::document_path, as the file name below cache_dir/documents
document_path(doc, format) == name(doc) \o <<".">> \o extension(format)

FileNames == {document_path(k[1], k[2]) : k \in Keys}

\* Path::file_stem of a file name
file_stem(fname) ==
    LET dot == rfind(fname, ".") IN
    IF fname = <<>> \/ fname = <<".", ".">> THEN None
    ELSE IF dot <= 1 THEN Some(fname)
    ELSE Some(SubSeq(fname, 1, dot - 1))

\* Path::exists
exists(fs, fname) == fs[fname].exists

\* fs::read_to_string(path).ok()
read_to_string_ok(fs, fname) ==
    IF fs[fname].exists /\ fs[fname].utf8 THEN Some(fs[fname].data) ELSE None


\* CacheManager::get_document
get_document(fs, doc, format) == read_to_string_ok(fs, document_path(doc, format))

\* history values of a key: never stored; stored, then removed or cleared;
\* the content of the latest store; undetermined after an operation on it
\* that failed
Never == [st |-> "never"]
Gone == [st |-> "gone"]
Tried == [st |-> "tried"]
Stored(c) == [st |-> "stored", val |-> c]

\* the history after an operation on the keys in ks
Record(h, ks, v) == [k \in HistKeys |-> IF k \in ks THEN v ELSE h[k]]

\* the history after a remove or clear on the keys in ks that returned Ok
Forget(h, ks) ==
    [k \in HistKeys |-> IF k \in ks /\ h[k] # Never THEN Gone ELSE h[k]]

\* the history after a failed remove or clear on the keys in ks
Unsettle(h, ks) ==
    [k \in HistKeys |-> IF k \in ks /\ h[k] # Never THEN Tried ELSE h[k]]

Ok(v) == [ok |-> TRUE, val |-> v]
Err(msg) == [ok |-> FALSE, err |-> msg]

\* CacheManager::with_dir: the cache root exists and is empty
InitCache ==
    /\ rootExists = TRUE
    /\ docsExists = FALSE
    /\ files = [p \in FileNames |-> NoFile]
    /\ last = [op |-> "new"]
    /\ lastStored = [k \in HistKeys |-> Never]

\* a faulty lookup: deletes the file it could not read
Lookup_evict_unreadable(doc, format) ==
    /\ last' = [op |-> "get", doc |-> doc, format |-> format,
                ret |-> get_document(files, doc, format)]
    /\ files' = [files EXCEPT ![document_path(doc, format)] =
                     IF @.exists /\ ~@.utf8 THEN NoFile ELSE @]
    /\ UNCHANGED <<rootExists, docsExists, lastStored, fetchVars, pureVars, taskVars>>

\* a call of CacheManager::get_document
Lookup(doc, format) ==
    /\ last' = [op |-> "get", doc |-> doc, format |-> format,
                ret |-> get_document(files, doc, format)]
    /\ UNCHANGED <<rootExists, docsExists, files, lastStored, fetchVars, pureVars, taskVars>>


\* fs::write(&path, content) when it succeeds
write(fs, fname, content) == [fs EXCEPT ![fname] = Data(content)]

\* what a failed fs::write can leave at the path: the file as it was (the
\* open failed), or a prefix of content that ends inside a character
write_failed(fs, fname) == {fs, [fs EXCEPT ![fname] = Garbled]}

\* CacheManager::store_document, create_dir_all(parent) fails; it can fail
\* only while the directory is not there
StoreDirFail(doc, format, content) ==
    /\ ~docsExists
    /\ last' = [op |-> "store", doc |-> doc, format |-> format, content |-> content,
                ret |-> Err("Failed to create document cache directory")]
    /\ lastStored' = Record(lastStored, {<<doc, format>>}, Tried)
    /\ UNCHANGED <<rootExists, docsExists, files, fetchVars, pureVars, taskVars>>

\* CacheManager::store_document, fs::write fails
StoreWriteFail(doc, format, content) ==
    /\ rootExists' = TRUE
    /\ docsExists' = TRUE
    /\ files' \in write_failed(files, document_path(doc, format))
    /\ last' = [op |-> "store", doc |-> doc, format |-> format, content |-> content,
                ret |-> Err("Failed to write document to cache")]
    /\ lastStored' = Record(lastStored, {<<doc, format>>}, Tried)
    /\ UNCHANGED <<fetchVars, pureVars, taskVars>>

\* CacheManager::store_document returning Ok(())
StoreOk(doc, format, content) ==
    /\ rootExists' = TRUE
    /\ docsExists' = TRUE
    /\ files' = write(files, document_path(doc, format), content)
    /\ last' = [op |-> "store", doc |-> doc, format |-> format, content |-> content,
                ret |-> Ok("unit")]
    /\ lastStored' = Record(lastStored, {<<doc, format>>}, Stored(content))
    /\ UNCHANGED <<fetchVars, pureVars, taskVars>>

Store(doc, format, content) ==
    \/ StoreDirFail(doc, format, content)
    \/ StoreWriteFail(doc, format, content)
    \/ StoreOk(doc, format, content)

\* CacheManager::clear_cache when cache_dir does not exist: Ok(()) at once
ClearNoRoot ==
    /\ ~rootExists
    /\ last' = [op |-> "clear", ret |-> Ok("unit")]
    /\ lastStored' = Forget(lastStored, HistKeys)
    /\ UNCHANGED <<rootExists, docsExists, files, fetchVars, pureVars, taskVars>>

\* CacheManager::clear_cache, remove_dir_all fails part-way: some of the
\* files are gone, the directories are still there
ClearRemoveFail ==
    /\ rootExists
    /\ \E gone \in SUBSET {p \in FileNames : files[p].exists} :
           files' = [p \in FileNames |-> IF p \in gone THEN NoFile ELSE files[p]]
    /\ last' = [op |-> "clear", ret |-> Err("Failed to clear cache")]
    /\ lastStored' = Unsettle(lastStored, HistKeys)
    /\ UNCHANGED <<rootExists, docsExists, fetchVars, pureVars, taskVars>>

\* CacheManager::clear_cache, remove_dir_all succeeds and create_dir_all fails
ClearCreateFail ==
    /\ rootExists
    /\ rootExists' = FALSE
    /\ docsExists' = FALSE
    /\ files' = [p \in FileNames |-> NoFile]
    /\ last' = [op |-> "clear", ret |-> Err("Failed to recreate cache directory")]
    /\ lastStored' = Unsettle(lastStored, HistKeys)
    /\ UNCHANGED <<fetchVars, pureVars, taskVars>>

\* a faulty clear_cache: removes only the text entries
ClearOk_text_only ==
    /\ rootExists
    /\ rootExists' = TRUE
    /\ docsExists' = docsExists
    /\ files' = [p \in FileNames |->
                    IF \E d \in CacheDocs : p = document_path(d, FormatText)
                    THEN NoFile ELSE files[p]]
    /\ last' = [op |-> "clear", ret |-> Ok("unit")]
    /\ lastStored' = Forget(lastStored, HistKeys)
    /\ UNCHANGED <<fetchVars, pureVars, taskVars>>

\* CacheManager::clear_cache returning Ok(()) after removing and recreating
ClearOk ==
    /\ rootExists
    /\ rootExists' = TRUE
    /\ docsExists' = FALSE
    /\ files' = [p \in FileNames |-> NoFile]
    /\ last' = [op |-> "clear", ret |-> Ok("unit")]
    /\ lastStored' = Forget(lastStored, HistKeys)
    /\ UNCHANGED <<fetchVars, pureVars, taskVars>>

Clear == ClearNoRoot \/ ClearRemoveFail \/ ClearCreateFail \/ ClearOk

\* a faulty remove: forgets removed = true after deleting the text file
removed_html_only(fs, doc) == exists(fs, document_path(doc, FormatHtml))

\* the value of removed at the end of CacheManager::remove
removed(fs, doc) ==
    exists(fs, document_path(doc, FormatHtml)) \/ exists(fs, document_path(doc, FormatText))

\* CacheManager::remove, remove_file(html_path) fails
RemoveHtmlFail(doc) ==
    /\ exists(files, document_path(doc, FormatHtml))
    /\ last' = [op |-> "remove", doc |-> doc,
                ret |-> Err("Failed to remove cached HTML file")]
    /\ lastStored' = Unsettle(lastStored, {doc} \X Formats)
    /\ UNCHANGED <<rootExists, docsExists, files, fetchVars, pureVars, taskVars>>

\* CacheManager::remove, remove_file(text_path) fails after the HTML step
RemoveTextFail(doc) ==
    /\ exists(files, document_path(doc, FormatText))
    /\ files' = [files EXCEPT ![document_path(doc, FormatHtml)] = NoFile]
    /\ last' = [op |-> "remove", doc |-> doc,
                ret |-> Err("Failed to remove cached text file")]
    /\ lastStored' = Unsettle(lastStored, {doc} \X Formats)
    /\ UNCHANGED <<rootExists, docsExists, fetchVars, pureVars, taskVars>>

\* CacheManager::remove returning Ok(removed)
RemoveOk(doc) ==
    /\ files' = [files EXCEPT ![document_path(doc, FormatHtml)] = NoFile,
                              ![document_path(doc, FormatText)] = NoFile]
    /\ last' = [op |-> "remove", doc |-> doc, ret |-> Ok(removed(files, doc))]
    /\ lastStored' = Forget(lastStored, {doc} \X Formats)
    /\ UNCHANGED <<rootExists, docsExists, fetchVars, pureVars, taskVars>>

Remove(doc) == RemoveHtmlFail(doc) \/ RemoveTextFail(doc) \/ RemoveOk(doc)

\* Vec::contains
contains(v, x) == \E i \in 1..Len(v) : v[i] = x

\* the loop of CacheManager::list_cached over the directory entries
RECURSIVE collect(_, _)
collect(entries, documents) ==
    IF entries = <<>> THEN documents
    ELSE LET stem == file_stem(Head(entries))
             doc_type == IF stem.some THEN parse(stem.val) ELSE None
         IN  collect(Tail(entries),
                 IF doc_type.some /\ ~contains(documents, doc_type.val)
                 THEN Append(documents, doc_type.val)
                 ELSE documents)

\* fs::read_dir: the existing files, in any order
read_dir(fs) ==
    LET present == {p \in FileNames : fs[p].exists}
    IN  {o \in [1..Cardinality(present) -> present] :
             \A i, j \in 1..Cardinality(present) : i # j => o[i] # o[j]}

\* a call of CacheManager::list_cached
ListCached ==
    /\ IF ~docsExists
       THEN last' = [op |-> "list", ret |-> <<>>]
       ELSE \E entries \in read_dir(files) :
                last' = [op |-> "list", ret |-> collect(entries, <<>>)]
    /\ UNCHANGED <<rootExists, docsExists, files, lastStored, fetchVars, pureVars, taskVars>>

NextCache ==
    \/ \E doc \in CacheDocs, format \in Formats : Lookup(doc, format)
    \/ \E doc \in CacheDocs, format \in Formats, content \in Contents :
           Store(doc, format, content)
    \/ Clear
    \/ \E doc \in CacheDocs : Remove(doc)
    \/ ListCached

(* --------------------------- rfc_editor.rs ---------------------------- *)

\* An anyhow error is its chain of messages, outermost context first; a
\* message is the sequence of the pieces format! joins.

\* Display of an anyhow error: the outermost message only
Display(err) == Head(err)

\* Result::context / with_context on an Err
with_context(err, msg) == <<msg>> \o err

\* StatusCode::is_success
is_success(status) == status \in 200..299

NoDoc == [tag |-> "None"]
Pending == [ok |-> FALSE, err |-> <<>>]

FetchDocs == {Rfc(9000), Draft(DraftQuic34), Draft(DraftFoo), Draft(DraftFoo00)}
Bodies == {"text body", "html body"}
Statuses == {200, 404}
\* the rev fields the metadata endpoint answers with
Revs == {<<"0", "0">>, <<>>}

\* answers of a content endpoint: no answer at all, or a status with a body
\* that can be read (Some) or not (None)
ContentResponses ==
    {[sent |-> FALSE]}
    \cup {[sent |-> TRUE, status |-> st, body |-> b] :
              st \in Statuses, b \in {Some(x) : x \in Bodies} \cup {None}}

\* answers of the metadata endpoint: no answer, or a status with a body that
\* is not a DraftInfo (None) or is one, with or without rev
MetaResponses ==
    {[sent |-> FALSE]}
    \cup {[sent |-> TRUE, status |-> st, json |-> j] :
              st \in Statuses,
              j \in {None, Some([rev |-> None])} \cup {Some([rev |-> Some(r)]) : r \in Revs}}

\* DocumentFetcher::fetch_content, given the answer to its GET
fetch_content(url, resp) ==
    IF ~resp.sent
    THEN Err(with_context(<<<<"error sending request">>>>, <<"Failed to fetch document">>))
    ELSE IF ~is_success(resp.status)
    THEN Err(<<<<"Failed to fetch ", url, ": HTTP ", Str(Decimal(resp.status))>>>>)
    ELSE IF ~resp.body.some
    THEN Err(with_context(<<<<"error decoding response body">>>>,
                          <<"Failed to read document content">>))
    ELSE Ok(resp.body.val)

\* a faulty resolver: reads the body without looking at the status
resolve_draft_version_ignore_status(doc, resp) ==
    IF ~resp.sent
    THEN Err(with_context(<<<<"error sending request">>>>, <<"Failed to query draft info">>))
    ELSE IF ~resp.json.some
    THEN Err(with_context(<<<<"error decoding response body">>>>,
                          <<"Failed to parse draft info">>))
    ELSE IF resp.json.val.rev.some
    THEN Ok(Draft(doc.name \o <<"-">> \o resp.json.val.rev.val))
    ELSE Ok(doc)

\* DocumentFetcher::resolve_draft_version after the query, given its answer
resolve_draft_version(doc, resp) ==
    IF ~resp.sent
    THEN Err(with_context(<<<<"error sending request">>>>, <<"Failed to query draft info">>))
    ELSE IF ~is_success(resp.status)
    THEN Err(<<<<"Draft not found: ", Str(doc.name)>>>>)
    ELSE IF ~resp.json.some
    THEN Err(with_context(<<<<"error decoding response body">>>>,
                          <<"Failed to parse draft info">>))
    ELSE IF resp.json.val.rev.some
    THEN Ok(Draft(doc.name \o <<"-">> \o resp.json.val.rev.val))
    ELSE Ok(doc)

\* a faulty resolver: queries for every draft, qualified or not
resolves_locally_rfc_only(doc) == doc.tag = "Rfc"

\* whether resolve_draft_version returns before any query
resolves_locally(doc) ==
    IF doc.tag = "Rfc" THEN TRUE ELSE has_version_suffix(doc.name)

TextRequest(doc) == [kind |-> "text", url |-> text_url(doc)]
HtmlRequest(doc) == [kind |-> "html", url |-> html_url(doc)]
MetaRequest(doc) == [kind |-> "meta", url |-> doc_json_url(doc.name)]

InitFetch ==
    /\ pc = "idle"
    /\ fdoc = NoDoc
    /\ rdoc = NoDoc
    /\ reqs = <<>>
    /\ resps = <<>>
    /\ fres = Pending
    /\ urlOut = None

\* fetch is called and runs to its first await
FetchStart(doc) ==
    /\ pc \in {"idle", "done"}
    /\ fdoc' = doc
    /\ resps' = <<>>
    /\ fres' = Pending
    /\ IF resolves_locally(doc)
       THEN /\ rdoc' = doc
            /\ reqs' = <<TextRequest(doc)>>
            /\ pc' = "text"
       ELSE /\ rdoc' = NoDoc
            /\ reqs' = <<MetaRequest(doc)>>
            /\ pc' = "meta"
    /\ UNCHANGED <<urlOut, cacheVars, pureVars, taskVars>>

\* a faulty fetch: builds the text URL from the identity it was called with
MetaResponse_text_from_original(resp) ==
    /\ pc = "meta"
    /\ resps' = Append(resps, resp)
    /\ LET r == resolve_draft_version(fdoc, resp) IN
       IF r.ok
       THEN /\ rdoc' = r.val
            /\ reqs' = Append(reqs, TextRequest(fdoc))
            /\ pc' = "text"
            /\ fres' = fres
       ELSE /\ fres' = r
            /\ pc' = "done"
            /\ UNCHANGED <<rdoc, reqs>>
    /\ UNCHANGED <<fdoc, urlOut, cacheVars, pureVars, taskVars>>

\* the metadata query completes: resolve_draft_version returns, and fetch
\* either returns its error or sends the text request
MetaResponse(resp) ==
    /\ pc = "meta"
    /\ resps' = Append(resps, resp)
    /\ LET r == resolve_draft_version(fdoc, resp) IN
       IF r.ok
       THEN /\ rdoc' = r.val
            /\ reqs' = Append(reqs, TextRequest(r.val))
            /\ pc' = "text"
            /\ fres' = fres
       ELSE /\ fres' = r
            /\ pc' = "done"
            /\ UNCHANGED <<rdoc, reqs>>
    /\ UNCHANGED <<fdoc, urlOut, cacheVars, pureVars, taskVars>>

\* a faulty fetch: tries the text URL a second time before falling back
TextResponse_retry_once(resp) ==
    /\ pc = "text"
    /\ resps' = Append(resps, resp)
    /\ LET r == fetch_content(reqs[Len(reqs)].url, resp) IN
       IF r.ok
       THEN /\ fres' = Ok([content |-> r.val, format |-> FormatText])
            /\ pc' = "done"
            /\ reqs' = reqs
       ELSE IF Len(reqs) >= 2 /\ reqs[Len(reqs) - 1].kind = "text"
       THEN /\ reqs' = Append(reqs, HtmlRequest(rdoc))
            /\ pc' = "html"
            /\ fres' = fres
       ELSE /\ reqs' = Append(reqs, TextRequest(rdoc))
            /\ pc' = "text"
            /\ fres' = fres
    /\ UNCHANGED <<fdoc, rdoc, urlOut, cacheVars, pureVars, taskVars>>

\* a faulty fetch: sends the HTML request whatever the text request gave
TextResponse_always_html(resp) ==
    /\ pc = "text"
    /\ resps' = Append(resps, resp)
    /\ reqs' = Append(reqs, HtmlRequest(rdoc))
    /\ pc' = "html"
    /\ fres' = fres
    /\ UNCHANGED <<fdoc, rdoc, urlOut, cacheVars, pureVars, taskVars>>

\* the text request completes: fetch returns (content, Text) or falls back
TextResponse(resp) ==
    /\ pc = "text"
    /\ resps' = Append(resps, resp)
    /\ LET r == fetch_content(reqs[Len(reqs)].url, resp) IN
       IF r.ok
       THEN /\ fres' = Ok([content |-> r.val, format |-> FormatText])
            /\ pc' = "done"
            /\ reqs' = reqs
       ELSE /\ reqs' = Append(reqs, HtmlRequest(rdoc))
            /\ pc' = "html"
            /\ fres' = fres
    /\ UNCHANGED <<fdoc, rdoc, urlOut, cacheVars, pureVars, taskVars>>

\* the error of the text request, which fetch holds while the HTML request
\* is in flight
text_err == fetch_content(reqs[Len(reqs) - 1].url, resps[Len(resps)]).err

\* a faulty fetch: tags the fallback content as Text
html_result_tag_text(content) == Ok([content |-> content, format |-> FormatText])

\* Ok((content, Format::Html))
html_result(content) == Ok([content |-> content, format |-> FormatHtml])

\* a faulty fetch: returns the HTML error without the text error
fallback_error_html_only(t_err, h_err) == Err(h_err)

\* the error of fetch when the fallback fails too
fallback_error(t_err, h_err) ==
    Err(with_context(h_err,
            <<"Plain text fetch failed (">> \o Display(t_err)
                \o <<"); HTML fallback also failed">>))

\* the HTML request completes: fetch returns (content, Html) or the error
HtmlResponse(resp) ==
    /\ pc = "html"
    /\ resps' = Append(resps, resp)
    /\ LET r == fetch_content(reqs[Len(reqs)].url, resp) IN
       fres' = IF r.ok THEN html_result(r.val) ELSE fallback_error(text_err, r.err)
    /\ pc' = "done"
    /\ UNCHANGED <<fdoc, rdoc, reqs, urlOut, cacheVars, pureVars, taskVars>>

\* a caller builds a URL with text_url or html_url
BuildUrl(doc, format) ==
    /\ urlOut' = Some([doc |-> doc, format |-> format,
                       url |-> IF format = FormatText THEN text_url(doc) ELSE html_url(doc)])
    /\ UNCHANGED <<pc, fdoc, rdoc, reqs, resps, fres, cacheVars, pureVars, taskVars>>

NextFetch ==
    \/ \E doc \in FetchDocs : FetchStart(doc)
    \/ \E resp \in MetaResponses : MetaResponse(resp)
    \/ \E resp \in ContentResponses : TextResponse(resp)
    \/ \E resp \in ContentResponses : HtmlResponse(resp)
    \/ \E doc \in FetchDocs, format \in Formats : BuildUrl(doc, format)

(* ------------------------- concurrent callers ------------------------- *)

\* Two callers share one cache directory. Each call is split at its system
\* calls, and the steps of the two callers interleave in any order. The disk
\* itself never fails in these runs (SpecCache has the failing disk).

Callers == {"A", "B"}
RaceDoc == Rfc(7)
\* what the two fetches can bring back for the same identity
RaceContents == {<<"x", "x">>, <<"y">>}

NoResult == [ok |-> FALSE, err |-> ""]

InitTasks ==
    /\ tasks = [t \in Callers |-> [pc |-> "idle", content |-> <<>>,
                                   removed |-> FALSE, ret |-> NoResult]]
    /\ finished = <<>>

\* a write of new at offset 0 of a file holding old
overlay(new, old) == new \o SubSeq(old, Len(new) + 1, Len(old))

\* the caller looks the key up and goes to the network on a miss
CallerLookup(t) ==
    /\ tasks[t].pc = "idle"
    /\ LET hit == get_document(files, RaceDoc, FormatText) IN
       tasks' = [tasks EXCEPT ![t].pc = IF hit.some THEN "hit" ELSE "fetch",
                              ![t].content = IF hit.some THEN hit.val ELSE <<>>]
    /\ UNCHANGED <<cacheVars, fetchVars, pureVars, finished>>

\* DocumentFetcher::fetch returns Ok((content, Format::Text)) to the caller
CallerFetch(t) ==
    /\ tasks[t].pc = "fetch"
    /\ \E content \in RaceContents :
           tasks' = [tasks EXCEPT ![t].pc = "mkdir", ![t].content = content]
    /\ UNCHANGED <<cacheVars, fetchVars, pureVars, finished>>

\* CacheManager::store_document, create_dir_all(parent)
StoreCreateDir(t) ==
    /\ tasks[t].pc = "mkdir"
    /\ rootExists' = TRUE
    /\ docsExists' = TRUE
    /\ tasks' = [tasks EXCEPT ![t].pc = "create"]
    /\ UNCHANGED <<files, last, lastStored, fetchVars, pureVars, finished>>

\* CacheManager::store_document, fs::write opens the file: File::create
\* makes it or truncates it
StoreOpen(t) ==
    /\ tasks[t].pc = "create"
    /\ files' = [files EXCEPT ![document_path(RaceDoc, FormatText)] = Data(<<>>)]
    /\ tasks' = [tasks EXCEPT ![t].pc = "write"]
    /\ UNCHANGED <<rootExists, docsExists, last, lastStored, fetchVars, pureVars, finished>>

\* CacheManager::store_document, fs::write writes the content through its
\* own handle, from offset 0, and store_document returns Ok(())
StoreWriteAll(t) ==
    /\ tasks[t].pc = "write"
    /\ files' = [files EXCEPT ![document_path(RaceDoc, FormatText)] =
                     Data(overlay(tasks[t].content, @.data))]
    /\ tasks' = [tasks EXCEPT ![t].pc = "done", ![t].ret = Ok("unit")]
    /\ finished' = Append(finished, t)
    /\ UNCHANGED <<rootExists, docsExists, last, lastStored, fetchVars, pureVars>>

NextStoreRace ==
    \/ \E t \in Callers : CallerLookup(t)
    \/ \E t \in Callers : CallerFetch(t)
    \/ \E t \in Callers : StoreCreateDir(t)
    \/ \E t \in Callers : StoreOpen(t)
    \/ \E t \in Callers : StoreWriteAll(t)

\* the cache as two removers find it: each representation of RaceDoc is
\* absent or holds some content
InitRemoveRace ==
    /\ rootExists = TRUE
    /\ \E cached \in [Formats -> {NoFile} \cup {Data(c) : c \in RaceContents}] :
           /\ files = [p \in FileNames |->
                          IF \E f \in Formats : p = document_path(RaceDoc, f)
                          THEN cached[CHOOSE f \in Formats : p = document_path(RaceDoc, f)]
                          ELSE NoFile]
           /\ docsExists = (\E f \in Formats : cached[f].exists)
    /\ last = [op |-> "new"]
    /\ lastStored = [k \in HistKeys |-> Never]
    /\ InitFetch
    /\ sfxIn = <<>>
    /\ sfxOut = None
    /\ InitTasks

\* CacheManager::remove, html_path.exists()
RemoveCheckHtml(t) ==
    /\ tasks[t].pc = "idle"
    /\ tasks' = [tasks EXCEPT ![t].pc =
                     IF exists(files, document_path(RaceDoc, FormatHtml))
                     THEN "rm_html" ELSE "chk_text"]
    /\ UNCHANGED <<cacheVars, fetchVars, pureVars, finished>>

\* CacheManager::remove, fs::remove_file(&html_path): NotFound when the
\* file has gone since the check
RemoveFileHtml(t) ==
    /\ tasks[t].pc = "rm_html"
    /\ IF exists(files, document_path(RaceDoc, FormatHtml))
       THEN /\ files' = [files EXCEPT ![document_path(RaceDoc, FormatHtml)] = NoFile]
            /\ tasks' = [tasks EXCEPT ![t].pc = "chk_text", ![t].removed = TRUE]
       ELSE /\ tasks' = [tasks EXCEPT ![t].pc = "done",
                                      ![t].ret = Err("Failed to remove cached HTML file")]
            /\ UNCHANGED files
    /\ UNCHANGED <<rootExists, docsExists, last, lastStored, fetchVars, pureVars, finished>>

\* CacheManager::remove, text_path.exists(); Ok(removed) when it is false
RemoveCheckText(t) ==
    /\ tasks[t].pc = "chk_text"
    /\ tasks' = IF exists(files, document_path(RaceDoc, FormatText))
                THEN [tasks EXCEPT ![t].pc = "rm_text"]
                ELSE [tasks EXCEPT ![t].pc = "done", ![t].ret = Ok(tasks[t].removed)]
    /\ UNCHANGED <<cacheVars, fetchVars, pureVars, finished>>

\* CacheManager::remove, fs::remove_file(&text_path), then Ok(removed)
RemoveFileText(t) ==
    /\ tasks[t].pc = "rm_text"
    /\ IF exists(files, document_path(RaceDoc, FormatText))
       THEN /\ files' = [files EXCEPT ![document_path(RaceDoc, FormatText)] = NoFile]
            /\ tasks' = [tasks EXCEPT ![t].pc = "done", ![t].removed = TRUE,
                                      ![t].ret = Ok(TRUE)]
       ELSE /\ tasks' = [tasks EXCEPT ![t].pc = "done",
                                      ![t].ret = Err("Failed to remove cached text file")]
            /\ UNCHANGED files
    /\ UNCHANGED <<rootExists, docsExists, last, lastStored, fetchVars, pureVars, finished>>

NextRemoveRace ==
    \/ \E t \in Callers : RemoveCheckHtml(t)
    \/ \E t \in Callers : RemoveFileHtml(t)
    \/ \E t \in Callers : RemoveCheckText(t)
    \/ \E t \in Callers : RemoveFileText(t)

(* ---------------------- has_version_suffix alone ---------------------- *)

InitPure ==
    /\ sfxIn = <<>>
    /\ sfxOut = None

\* a name is drawn for has_version_suffix; the cache and the fetcher are
\* as constructed
InitSuffix ==
    /\ InitCache
    /\ InitFetch
    /\ sfxIn \in Names \cup TestNames
    /\ sfxOut = None
    /\ InitTasks

\* has_version_suffix is applied to the drawn name
CheckSuffix ==
    /\ sfxOut = None
    /\ sfxOut' = Some(has_version_suffix(sfxIn))
    /\ UNCHANGED <<sfxIn, cacheVars, fetchVars, taskVars>>

(* ------------------- cache and fetcher side by side ------------------- *)

\* the inputs of the runs that interleave cache calls with fetches
FrameDocs == {Rfc(7)}
FrameContents == {"a"}
FrameFetchDocs == {Draft(DraftFoo)}
FrameMeta ==
    {[sent |-> FALSE],
     [sent |-> TRUE, status |-> 200, json |-> Some([rev |-> Some(<<"0", "0">>)])]}
FrameContent ==
    {[sent |-> FALSE],
     [sent |-> TRUE, status |-> 200, body |-> Some("text body")]}

NextFrame ==
    \/ \E doc \in FrameDocs, format \in Formats : Lookup(doc, format)
    \/ \E doc \in FrameDocs, format \in Formats, content \in FrameContents :
           Store(doc, format, content)
    \/ Clear
    \/ \E doc \in FrameDocs : Remove(doc)
    \/ ListCached
    \/ \E doc \in FrameFetchDocs : FetchStart(doc)
    \/ \E resp \in FrameMeta : MetaResponse(resp)
    \/ \E resp \in FrameContent : TextResponse(resp)
    \/ \E resp \in FrameContent : HtmlResponse(resp)

(* --------------------------- specifications --------------------------- *)

Init == InitCache /\ InitFetch /\ InitPure /\ InitTasks

\* the cache operations, called in any order with any arguments
SpecCache == Init /\ [][NextCache]_vars

\* fetches one after the other, against any answers of the endpoints
SpecFetch == Init /\ [][NextFetch]_vars

\* has_version_suffix on every name of the input set
SpecSuffix == InitSuffix /\ [][CheckSuffix]_vars

\* two callers run lookup, fetch, store for the same key at the same time
SpecStoreRace == Init /\ [][NextStoreRace]_vars

\* two callers run remove for the same identity at the same time
SpecRemoveRace == InitRemoveRace /\ [][NextRemoveRace]_vars

\* cache calls and fetches interleaved in any order
SpecFrame == Init /\ [][NextFrame]_vars

(* ------------------------------ claims -------------------------------- *)

\* C1: after a successful store of (identity, representation, content),
\* lookup of that key returns the content of its most recent successful
\* store, until a later remove of the identity or a clear.
C1_StoredContentPersists ==
    \A k \in HistKeys :
        lastStored[k].st = "stored"
            => get_document(files, k[1], k[2]) = Some(lastStored[k].val)

\* a response with a success status and a readable body
Succeeded(resp) ==
    /\ resp.sent
    /\ resp.status >= 200 /\ resp.status < 300
    /\ resp.body.some

TextAnswered(i) == i \in 1..Len(resps) /\ reqs[i].kind = "text"
HtmlAnswered(i) == i \in 1..Len(resps) /\ reqs[i].kind = "html"

\* C2: once the text request of a fetch has succeeded, the fetch has
\* returned (that body, Text) and has sent no HTML request.
C2_TextSuccessNoHtml ==
    \A i \in 1..Len(resps) :
        (TextAnswered(i) /\ Succeeded(resps[i]))
            => /\ pc = "done"
               /\ fres = Ok([content |-> resps[i].body.val, format |-> FormatText])
               /\ reqs[i].url = text_url(rdoc)
               /\ \A j \in 1..Len(reqs) : reqs[j].kind # "html"

W2_TextSucceeded ==
    /\ pc = "done"
    /\ \E i \in 1..Len(resps) : TextAnswered(i) /\ Succeeded(resps[i])
    /\ fdoc # rdoc

\* C3: when the text request failed (no answer, a non-success status or an
\* unreadable body) and the HTML request succeeded, fetch returns (the HTML
\* body, Html); and whenever fetch returns content, its tag is the kind of
\* the request whose body it returns.
C3_FallbackReturnsHtml ==
    /\ \A i, j \in 1..Len(resps) :
           (TextAnswered(i) /\ ~Succeeded(resps[i])
              /\ HtmlAnswered(j) /\ Succeeded(resps[j]))
               => fres = Ok([content |-> resps[j].body.val, format |-> FormatHtml])
    /\ (pc = "done" /\ fres.ok)
           => /\ Succeeded(resps[Len(resps)])
              /\ fres.val.content = resps[Len(resps)].body.val
              /\ reqs[Len(resps)].kind
                     = (IF fres.val.format = FormatText THEN "text" ELSE "html")

W3_FallbackSucceeded ==
    /\ pc = "done"
    /\ fres.ok
    /\ \E i, j \in 1..Len(resps) :
           /\ TextAnswered(i) /\ resps[i].sent /\ resps[i].status = 200
           /\ ~resps[i].body.some
           /\ HtmlAnswered(j) /\ Succeeded(resps[j])

\* m occurs in s as a run of consecutive elements
Infix(m, s) == \E i \in 0..(Len(s) - Len(m)) : SubSeq(s, i + 1, i + Len(m)) = m

\* sfx is the end of s
Suffix(sfx, s) ==
    Len(sfx) <= Len(s) /\ SubSeq(s, Len(s) - Len(sfx) + 1, Len(s)) = sfx

\* C4: when the text request and the HTML request both failed, fetch returns
\* an error, never content; the error's message contains the message of the
\* text failure and its chain ends with the whole HTML failure.
C4_BothFailuresReported ==
    \A i, j \in 1..Len(resps) :
        (TextAnswered(i) /\ ~Succeeded(resps[i])
           /\ HtmlAnswered(j) /\ ~Succeeded(resps[j]))
            => /\ pc = "done"
               /\ ~fres.ok
               /\ Infix(Display(fetch_content(reqs[i].url, resps[i]).err),
                        Display(fres.err))
               /\ Suffix(fetch_content(reqs[j].url, resps[j]).err, fres.err)
               /\ Len(fres.err) > Len(fetch_content(reqs[j].url, resps[j]).err)

W4_BothFailed ==
    /\ pc = "done"
    /\ ~fres.ok
    /\ \E i, j \in 1..Len(resps) :
           /\ TextAnswered(i) /\ resps[i].sent /\ resps[i].status = 404
           /\ HtmlAnswered(j) /\ ~resps[j].sent

\* the entry of (doc, format) is on disk
HasEntry(fs, doc, format) == fs[document_path(doc, format)].exists

\* C5: a remove that returns Ok returns true iff the Text entry or the
\* Hypertext entry of the identity existed before the call, and leaves both
\* absent; with no entry it returns Ok(false), never an error, so a remove
\* right after a remove of the same identity returns false.
C5_RemoveSemantics ==
    [][ /\ (last'.op = "remove" /\ last'.ret.ok)
            => /\ last'.ret.val = (HasEntry(files, last'.doc, FormatText)
                                     \/ HasEntry(files, last'.doc, FormatHtml))
               /\ \A f \in Formats :
                      /\ ~HasEntry(files', last'.doc, f)
                      /\ get_document(files', last'.doc, f) = None
        /\ (last'.op = "remove"
              /\ ~HasEntry(files, last'.doc, FormatText)
              /\ ~HasEntry(files, last'.doc, FormatHtml))
            => last'.ret = Ok(FALSE)
        /\ (last.op = "remove" /\ last.ret.ok
              /\ last'.op = "remove" /\ last'.doc = last.doc)
            => last'.ret = Ok(FALSE)
      ]_vars

W5_RemovedOne ==
    /\ last.op = "remove"
    /\ last.ret = Ok(TRUE)
    /\ last.doc = Draft(DraftA)
    /\ \E d \in CacheDocs, f \in Formats : HasEntry(files, d, f)

\* every lookup is absent and every enumeration is empty
CacheEmpty(fs, docs_dir) ==
    /\ \A k \in Keys : get_document(fs, k[1], k[2]) = None
    /\ docs_dir => \A entries \in read_dir(fs) : collect(entries, <<>>) = <<>>

\* C6: a clear that returns Ok leaves every lookup absent and the
\* enumeration empty, whatever was stored before, and they stay so through
\* every operation that is not a store.
C6_ClearEmpties ==
    [][ /\ (last'.op = "clear" /\ last'.ret.ok) => CacheEmpty(files', docsExists')
        /\ (CacheEmpty(files, docsExists) /\ last'.op # "store")
            => CacheEmpty(files', docsExists')
        /\ (last.op = "clear" /\ last.ret.ok /\ last'.op \in {"get", "list"})
            => last'.ret = (IF last'.op = "get" THEN None ELSE <<>>)
      ]_vars

W6_StoredThenCleared ==
    /\ last.op = "clear"
    /\ last.ret.ok
    /\ \A k \in HistKeys : lastStored[k] = Gone
    /\ CacheEmpty(files, docsExists)

\* C7: lookup returns content or absent, never an error; it returns absent
\* for a key not stored since the last remove of its identity or clear, and
\* for a file that is missing or does not decode.
C7_LookupAbsent ==
    /\ last.op = "get" => (last.ret = None \/ last.ret \in {Some(c) : c \in Contents})
    /\ \A k \in HistKeys :
           lastStored[k] \in {Never, Gone} => get_document(files, k[1], k[2]) = None
    /\ \A k \in Keys :
           (files[document_path(k[1], k[2])] \in {NoFile, Garbled})
               => get_document(files, k[1], k[2]) = None

Range(v) == {v[i] : i \in 1..Len(v)}

\* C8: enumerate returns exactly the identities that have a stored entry,
\* each of them once.
C8_EnumerateExact ==
    last.op = "list"
        => /\ Range(last.ret)
                 = {d \in CacheDocs : \E f \in Formats : HasEntry(files, d, f)}
           /\ \A i, j \in 1..Len(last.ret) : i # j => last.ret[i] # last.ret[j]

\* the name has a dash after which only ASCII digits follow, at least one
Qualified(nm) ==
    \E i \in 1..Len(nm) :
        /\ nm[i] = "-"
        /\ i < Len(nm)
        /\ \A j \in (i + 1)..Len(nm) :
               nm[j] \in {"0", "1", "2", "3", "4", "5", "6", "7", "8", "9"}

\* C9: has_version_suffix is true iff the name has a dash and what follows
\* its last dash is a non-empty run of ASCII digits; a trailing dash, a
\* non-digit in the suffix, no dash and the empty name give false.
C9_VersionSuffix ==
    sfxOut.some
        => /\ sfxOut.val = Qualified(sfxIn)
           /\ sfxIn \in {DraftQuic34, DraftFoo00} => sfxOut.val
           /\ sfxIn \in {<<>>, DraftFoo, DraftFoo \o <<"-">>,
                         DraftFoo \o <<"-", "v", "2">>,
                         <<"d", "r", "a", "f", "t", "n", "a", "m", "e">>} => ~sfxOut.val

W9_LastDashDecides ==
    /\ sfxOut = Some(TRUE)
    /\ sfxIn = <<"-", "a", "-", "0">>

\* the table of remote content endpoints
TableUrl(doc, format) ==
    CASE doc.tag = "Rfc" /\ format = FormatText
           -> "https://www.rfc-editor.org/rfc/" \o Str(name(doc)) \o ".txt"
      [] doc.tag = "Rfc" /\ format = FormatHtml
           -> "https://www.rfc-editor.org/rfc/" \o Str(name(doc)) \o ".html"
      [] doc.tag = "Draft" /\ format = FormatText
           -> "https://www.ietf.org/archive/id/" \o Str(doc.name) \o ".txt"
      [] doc.tag = "Draft" /\ format = FormatHtml
           -> "https://datatracker.ietf.org/doc/html/" \o Str(doc.name)

\* C10: text_url and html_url give the URL of the table for every identity
\* and representation, in every state of the fetcher; the requests of a
\* fetch go to the table's URLs of the resolved identity.
C10_UrlTable ==
    /\ urlOut.some
           => /\ urlOut.val.url = TableUrl(urlOut.val.doc, urlOut.val.format)
              /\ (urlOut.val.doc = Rfc(9000) /\ urlOut.val.format = FormatText)
                     => urlOut.val.url = "https://www.rfc-editor.org/rfc/rfc9000.txt"
              /\ (urlOut.val.doc = Rfc(9000) /\ urlOut.val.format = FormatHtml)
                     => urlOut.val.url = "https://www.rfc-editor.org/rfc/rfc9000.html"
              /\ (urlOut.val.doc = Draft(DraftQuic34) /\ urlOut.val.format = FormatText)
                     => urlOut.val.url
                          = "https://www.ietf.org/archive/id/draft-ietf-quic-transport-34.txt"
              /\ (urlOut.val.doc = Draft(DraftQuic34) /\ urlOut.val.format = FormatHtml)
                     => urlOut.val.url
                          = "https://datatracker.ietf.org/doc/html/draft-ietf-quic-transport-34"
    /\ \A i \in 1..Len(reqs) :
           reqs[i].kind # "meta"
               => reqs[i].url = TableUrl(rdoc, IF reqs[i].kind = "text"
                                               THEN FormatText ELSE FormatHtml)

W10_DraftHtmlAfterFetch ==
    /\ urlOut.some
    /\ urlOut.val.doc = Draft(DraftQuic34)
    /\ urlOut.val.format = FormatHtml
    /\ pc = "done"
    /\ \E i \in 1..Len(reqs) : reqs[i].kind = "html"

\* C11: the resolver returns a published identity, and a draft whose name
\* is already revision-qualified, unchanged, without a metadata request and
\* without an error of its own.
C11_ResolvedLocally ==
    (pc # "idle" /\ (fdoc.tag = "Rfc" \/ (fdoc.tag = "Draft" /\ Qualified(fdoc.name))))
        => /\ rdoc = fdoc
           /\ \A i \in 1..Len(reqs) : reqs[i].kind # "meta"
           /\ reqs # <<>> /\ reqs[1].kind = "text"
           /\ (pc = "done" /\ ~fres.ok) => \E i \in 1..Len(reqs) : reqs[i].kind = "html"

W11_QualifiedDraftNoQuery ==
    /\ pc = "text"
    /\ fdoc = Draft(DraftFoo00)
    /\ rdoc = fdoc

\* the metadata query of the running fetch has been answered
MetaAnswered == Len(resps) >= 1 /\ reqs[1].kind = "meta"

\* the answer has a success status
SuccessStatus(resp) == resp.sent /\ resp.status >= 200 /\ resp.status < 300

\* C12: for an unqualified draft the one metadata answer decides the
\* resolver's outcome: no answer gives the metadata-unavailable error, a
\* non-success status the not-found error, a parsed answer without rev the
\* identity unchanged, a parsed answer with rev r the draft name-r.
C12_MetadataDecides ==
    /\ reqs # <<>> /\ reqs[1].kind = "meta"
           => /\ fdoc.tag = "Draft" /\ ~Qualified(fdoc.name)
              /\ \A i \in 2..Len(reqs) : reqs[i].kind # "meta"
    /\ MetaAnswered
           => LET m == resps[1] IN
              /\ ~m.sent
                     => /\ pc = "done" /\ ~fres.ok
                        /\ Display(fres.err) = <<"Failed to query draft info">>
              /\ (m.sent /\ ~SuccessStatus(m))
                     => /\ pc = "done" /\ ~fres.ok
                        /\ Display(fres.err) = <<"Draft not found: ", Str(fdoc.name)>>
              /\ (SuccessStatus(m) /\ m.json.some /\ ~m.json.val.rev.some)
                     => /\ rdoc = fdoc
                        /\ Len(reqs) >= 2
              /\ (SuccessStatus(m) /\ m.json.some /\ m.json.val.rev.some)
                     => /\ rdoc = Draft(fdoc.name \o <<"-">> \o m.json.val.rev.val)
                        /\ Len(reqs) >= 2

W12_RevisionAppended ==
    /\ MetaAnswered
    /\ fdoc = Draft(DraftFoo)
    /\ rdoc = Draft(DraftFoo00)

\* the resolver fails on this answer
ResolutionFails(resp) == ~SuccessStatus(resp) \/ ~resp.json.some

\* C13: when the resolver fails, fetch returns the resolver's error as it
\* is and sends neither the text nor the HTML request; when it succeeds,
\* the text and the HTML URL are those of the resolved identity, not of the
\* identity fetch was called with.
C13_ResolveThenFetch ==
    /\ (MetaAnswered /\ ResolutionFails(resps[1]))
           => /\ pc = "done"
              /\ fres = resolve_draft_version(fdoc, resps[1])
              /\ \A i \in 1..Len(reqs) : reqs[i].kind = "meta"
    /\ \A i \in 1..Len(reqs) : \A f \in Formats :
           reqs[i].kind = (IF f = FormatText THEN "text" ELSE "html")
               => /\ reqs[i].url = TableUrl(rdoc, f)
                  /\ rdoc # fdoc => reqs[i].url # TableUrl(fdoc, f)

W13_FallbackOnResolved ==
    /\ pc = "done"
    /\ rdoc = Draft(DraftFoo00)
    /\ fdoc = Draft(DraftFoo)
    /\ \E i \in 1..Len(reqs) : reqs[i].kind = "html"

\* the kinds of the requests sent so far, in order
Kinds == [i \in 1..Len(reqs) |-> reqs[i].kind]

\* C14: a fetch sends at most one metadata query, one text request and one
\* HTML request, in that order, and the HTML request only after its text
\* request has failed.
C14_NoRetry ==
    /\ Kinds \in {<<>>, <<"meta">>, <<"meta", "text">>, <<"meta", "text", "html">>,
                  <<"text">>, <<"text", "html">>}
    /\ Len(resps) <= Len(reqs)
    /\ Len(reqs) <= Len(resps) + 1
    /\ \A i \in 1..Len(reqs) :
           reqs[i].kind = "html"
               => /\ i > 1 /\ reqs[i - 1].kind = "text"
                  /\ ~Succeeded(resps[i - 1])

W14_ThreeRequests ==
    /\ Kinds = <<"meta", "text", "html">>
    /\ pc = "done"

\* C16: after every clear that returns Ok, whatever the state before it,
\* the cache root exists and holds no entry.
C16_ClearRecreatesRoot ==
    (last.op = "clear" /\ last.ret.ok)
        => /\ rootExists
           /\ \A p \in FileNames : ~files[p].exists

\* C18: distinct keys have distinct paths, so a store leaves the lookup of
\* every other key as it was, and a remove leaves the lookups of every other
\* identity as they were.
C18_KeyIsolation ==
    [][ /\ last'.op = "store"
            => \A k \in Keys :
                   k # <<last'.doc, last'.format>>
                       => get_document(files', k[1], k[2]) = get_document(files, k[1], k[2])
        /\ last'.op = "remove"
            => \A k \in Keys :
                   k[1] # last'.doc
                       => get_document(files', k[1], k[2]) = get_document(files, k[1], k[2])
      ]_vars

\* C19: a draft identity rewritten by the resolver is revision-qualified, so
\* resolving it again returns it unchanged without a metadata query.
C19_ResolutionIdempotent ==
    (rdoc # NoDoc /\ rdoc # fdoc)
        => /\ Qualified(rdoc.name)
           /\ resolves_locally(rdoc)

\* the cache directory tree is the same before and after the step
SameTree ==
    /\ files' = files
    /\ rootExists' = rootExists
    /\ docsExists' = docsExists

\* the paths of the two representations of an identity
PathsOf(doc) == {document_path(doc, format) : format \in Formats}

\* C17: lookup, enumerate and every step of a fetch (the version query
\* included) leave the cache tree as it is; a file appears only in a store
\* to its key, and an existing file changes or disappears only in a store to
\* its key, a remove of its identity, or a clear.
C17_OnlyStoreCreates ==
    [][ /\ last'.op \in {"get", "list"} => SameTree
        /\ fetchVars' # fetchVars => SameTree
        /\ \A p \in FileNames :
               (~files[p].exists /\ files'[p].exists)
                   => last'.op = "store" /\ p = document_path(last'.doc, last'.format)
        /\ \A p \in FileNames :
               (files[p].exists /\ files'[p] # files[p])
                   => \/ last'.op = "store" /\ p = document_path(last'.doc, last'.format)
                      \/ last'.op = "remove" /\ p \in PathsOf(last'.doc)
                      \/ last'.op = "clear"
      ]_vars

W17_EntrySurvivesFetch ==
    /\ lastStored[<<Rfc(7), FormatText>>] = Stored("a")
    /\ pc = "done"
    /\ fres.ok
    /\ last.op = "get"
    /\ last.ret = Some("a")
    /\ get_document(files, Rfc(7), FormatText) = Some("a")

\* C15: once two concurrent callers have both fetched and stored the same
\* key, the entry holds exactly the content of the store that finished last,
\* and a lookup returns it.
C15_LastWriteWins ==
    Len(finished) = Cardinality(Callers)
        => get_document(files, RaceDoc, FormatText)
               = Some(tasks[finished[Len(finished)]].content)

\* C20: when two callers remove the same identity at the same time, in
\* whatever order their steps interleave, neither call returns an error and
\* both representations are absent once both have returned.
C20_ConcurrentRemovesOk ==
    (\A t \in Callers : tasks[t].pc = "done")
        => /\ \A t \in Callers : tasks[t].ret.ok
           /\ \A f \in Formats : ~exists(files, document_path(RaceDoc, f))

====
